---- MODULE Spec2Model ----
(***************************************************************************)
(* The transaction pipeline AccountClass.sendPowTx, the account block's    *)
(* chain-position resolution, and Client.sendRawTx, against a remote       *)
(* ledger node that keeps one append-only chain for the account.           *)
(*                                                                         *)
(* JavaScript is single-threaded: the code between two awaits runs         *)
(* atomically, so every action below is one such stretch.  It starts at    *)
(* the arrival of an external response (or at a call by the user, or at a  *)
(* hook invoking its continuation) and runs up to the next external        *)
(* request, the next registered hook, or the return of the invocation.     *)
(***************************************************************************)
EXTENDS Integers, Sequences, FiniteSets, Bags, TLC

\* Bound: how many operations (sendPowTx, sendRawTx) are started in one
\* behaviour.
MaxRuns == 2

\* The callers that may have an invocation of sendPowTx outstanding.
Inv == {"a", "b"}

Null == "null"

Undefined == "undefined"

\* The address of the account, derived from PublicKey, and the address of
\* somebody else.
Address == "vite_a"

OtherAddress == "vite_other"

\* The all-zero previousHash of the first block of a chain.
Default_Hash == <<"0000">>

\* A chain-tip answer: the account has no block (null), or its latest block.
NoLatest == [present |-> FALSE, height |-> 0, hash |-> <<>>]

\* checkPowResult before the oracle answered (undefined).
NoCheckPowResult == [difficulty |-> "undefined"]

NoSignature == <<>>

\* The key pair of the account; the address is derived from it.
PrivateKey == "privKey"

PublicKey == "pubKey"

HookNames == {"beforeCheckPow", "beforePow", "beforeSignTx", "beforeSendTx"}

\* What a registered hook does with its continuation: it calls it, calls it
\* with the reject signal (true), or never calls it.
HookBehaviours == {"proceed", "reject", "stall"}

BlockTypes == {"send", "receive"}

\* The operations a caller may have outstanding.
Ops == {"sendPowTx", "sendRawTx"}

\* The difficulty the oracle may answer: null (quota suffices) or a target.
Difficulties == {Null, "65535"}

Nonces == {"nonce1"}

VARIABLES
    chain,      \* the remote node: the accepted blocks of the account, in order
    submitted,  \* the remote node: every submission made, accepted or not
    inv,        \* per caller: the closure of its invocation of sendPowTx
    runs,       \* how many invocations were started
    blk,        \* an AccountBlockClass object: its fields
    bop,        \* the operation last called on it, and how it ended
    _lock,      \* AccountClass: the balance loop is frozen
    _autoReceive,  \* AccountClass: the receive loop is on
    balance,    \* AccountClass: the balance last fetched
    loops,      \* the chains of the two loops: a timer or a tick in flight
    onroad,     \* the remote node: the pending inbound blocks, oldest first
    received,   \* the remote node: the inbound blocks received, in order
    client      \* the Client object: its provider and its namespace fields

pipeVars == <<chain, submitted, inv, runs, client>>

blockVars == <<blk, bop>>

loopVars == <<_lock, _autoReceive, balance, loops, onroad, received>>

vars == <<pipeVars, blockVars, loopVars, client>>

----------------------------------------------------------------------------
\* The account block.

\* The block before getBlock has built it.
NoBlock ==
    [blockType |-> Null, height |-> 0, prevHash |-> Default_Hash,
     difficulty |-> Null, nonce |-> Null,
     publicKey |-> Null, signature |-> NoSignature]

\* The content hash: a digest of the hashed fields in the canonical order.
\* The digest is taken as collision free, so it is the tuple of its inputs.
getAccountBlockHash(b) ==
    <<b.blockType, b.prevHash, b.height, b.nonce>>

\* ed25519 signature of a hash under a key.
Sign(hash, key) == <<hash, key>>

\* getHeight without the increment.
getHeight_SameHeight(latest) ==
    [height |-> IF latest.present /\ latest.height # 0
                THEN latest.height ELSE 1,
     previousHash |-> IF latest.present /\ latest.hash # <<>>
                      THEN latest.hash ELSE Default_Hash]

\* AccountBlockClass.getHeight: the position after the chain tip `latest`:
\* a tip that is null, or has no height (0), gives height 1; a tip that is
\* null, or has no hash, gives the sentinel previousHash.
getHeight(latest) ==
    [height |-> IF latest.present /\ latest.height # 0
                THEN latest.height + 1 ELSE 1,
     previousHash |-> IF latest.present /\ latest.hash # <<>>
                      THEN latest.hash ELSE Default_Hash]

\* AccountBlockClass.setHeight.
setHeight(b, pos) ==
    [b EXCEPT !.height = pos.height, !.prevHash = pos.previousHash]

\* signAccountBlock(accountBlock, privateKey): the public key and the
\* signature of the block's hash are stored on the block.
signAccountBlock(b, key) ==
    [b EXCEPT !.publicKey = PublicKey,
              !.signature = Sign(getAccountBlockHash(b), key)]

IsSigned(b) ==
    /\ b.publicKey = PublicKey
    /\ b.signature = Sign(getAccountBlockHash(b), PrivateKey)

\* checkParams with the rule of AccountClass.signAccountBlock: the error of
\* a block whose accountAddress is set and is not the account's, else null.
checkAccountAddress(accountAddress) ==
    IF accountAddress = Undefined \/ accountAddress = Address THEN Null
    ELSE "AccountAddress is wrong."

\* AccountClass.signAccountBlock: what checkParams returns is not read; the
\* block's accountAddress is set to the account's and the block is signed
\* with the account's key.
AccountClass_signAccountBlock(b, accountAddress) ==
    LET err == checkAccountAddress(accountAddress) IN
    [threw |-> FALSE, error |-> Null, accountAddress |-> Address,
     block |-> signAccountBlock(b, PrivateKey)]

----------------------------------------------------------------------------
\* The remote ledger node.

\* ledger_getLatestAccountBlock: the chain tip, or Null for an empty chain.
LatestAccountBlock ==
    IF chain = <<>> THEN NoLatest
    ELSE [present |-> TRUE, height |-> chain[Len(chain)].height,
          hash |-> getAccountBlockHash(chain[Len(chain)])]

\* The node takes a block only at the position after its tip.
NodeAccepts(b) ==
    /\ b.height = Len(chain) + 1
    /\ b.prevHash = IF chain = <<>> THEN Default_Hash
                    ELSE getAccountBlockHash(chain[Len(chain)])

----------------------------------------------------------------------------
\* sendPowTx: the closure of one invocation.

NoCalls == [tip |-> 0, oracle |-> 0, solver |-> 0, sign |-> 0, submit |-> 0]

NoHookCalls == [h \in HookNames |-> Null]

NoResult ==
    [kind |-> "none", lifeCycle |-> Null, checkPowResult |-> NoCheckPowResult,
     hasBlock |-> FALSE, accountBlock |-> NoBlock]

Closure(pc) ==
    [pc |-> pc, op |-> Null, hooks |-> {}, hookDid |-> NoHookCalls,
     lifeCycle |-> Null, checkPowResult |-> NoCheckPowResult, usePledgeQuota |-> TRUE,
     accountBlock |-> NoBlock, request |-> Null,
     calls |-> NoCalls, result |-> NoResult,
     powArg |-> NoBlock, sendArg |-> NoBlock,
     pc2 |-> Null, sendArg2 |-> NoBlock,
     accountAddress |-> Undefined]

\* A continuation called with isReject returning the first marker.
Rejected_Start(s) ==
    [s EXCEPT !.pc = "returned",
              !.result = [kind |-> "result", lifeCycle |-> "start",
                          checkPowResult |-> s.checkPowResult,
                          hasBlock |-> TRUE, accountBlock |-> s.accountBlock]]

\* A continuation called with isReject: the invocation returns its closure's
\* current values.
Rejected(s) ==
    [s EXCEPT !.pc = "returned",
              !.result = [kind |-> "result", lifeCycle |-> s.lifeCycle,
                          checkPowResult |-> s.checkPowResult,
                          hasBlock |-> TRUE, accountBlock |-> s.accountBlock]]

\* A failed submission issued a second time before the failure is passed on.
Thrown_Retry(s) ==
    IF s.pc = "sendAccountBlock" /\ s.calls.submit < 2
    THEN [s EXCEPT !.calls.submit = @ + 1]
    ELSE [s EXCEPT !.pc = "failed",
                   !.result = [kind |-> "error", lifeCycle |-> Null,
                               checkPowResult |-> NoCheckPowResult,
                               hasBlock |-> FALSE, accountBlock |-> NoBlock]]

\* An awaited external call rejected: the rejection leaves sendPowTx as it
\* came, there is no catch in sendPowTx.
Thrown(s) ==
    [s EXCEPT !.pc = "failed",
              !.result = [kind |-> "error", lifeCycle |-> Null,
                          checkPowResult |-> NoCheckPowResult,
                          hasBlock |-> FALSE, accountBlock |-> NoBlock]]

\* sendTxFunc returning 'finish' without awaiting the submission.
sendTxFunc_NoAwait(s, isReject) ==
    IF isReject THEN Rejected(s)
    ELSE [s EXCEPT !.pc = "returned",
                   !.result = [kind |-> "result", lifeCycle |-> "finish",
                               checkPowResult |-> s.checkPowResult,
                               hasBlock |-> TRUE, accountBlock |-> s.accountBlock]]

\* Step 7, up to the await of sendAccountBlock.
sendTxFunc(s, isReject) ==
    IF isReject THEN Rejected(s)
    ELSE [s EXCEPT !.pc = "sendAccountBlock", !.calls.submit = @ + 1,
                   !.sendArg = s.accountBlock]

\* Step 7, after sendAccountBlock resolved.
sendTxFuncDone(s) ==
    [s EXCEPT !.pc = "returned",
              !.result = [kind |-> "result", lifeCycle |-> "finish",
                          checkPowResult |-> s.checkPowResult,
                          hasBlock |-> TRUE, accountBlock |-> s.accountBlock]]

\* _beforeSendTx waiting for a hook that is not registered.
_beforeSendTx_AlwaysHook(s) ==
    [s EXCEPT !.pc = "beforeSendTx"]

\* Step 6.
_beforeSendTx(s) ==
    IF "beforeSendTx" \notin s.hooks THEN sendTxFunc(s, FALSE)
    ELSE [s EXCEPT !.pc = "beforeSendTx"]

\* signTx without the isReject test.
signTx_IgnoresReject(s, isReject) ==
    _beforeSendTx(
        [s EXCEPT !.accountBlock =
                      AccountClass_signAccountBlock(s.accountBlock, Address).block,
                  !.lifeCycle = "signDone",
                  !.calls.sign = @ + 1])

\* Step 5.
signTx(s, isReject) ==
    IF isReject THEN Rejected(s)
    ELSE _beforeSendTx(
            [s EXCEPT !.accountBlock =
                          AccountClass_signAccountBlock(s.accountBlock, Address).block,
                      !.lifeCycle = "signDone",
                      !.calls.sign = @ + 1])

\* Step 4.
_beforeSignTx(s) ==
    IF "beforeSignTx" \notin s.hooks THEN signTx(s, FALSE)
    ELSE [s EXCEPT !.pc = "beforeSignTx"]

\* Step 3, up to the await of builtinTxBlock.pow.
powFunc(s, isReject) ==
    IF isReject THEN Rejected(s)
    ELSE [s EXCEPT !.pc = "pow", !.calls.solver = @ + 1,
                   !.powArg = s.accountBlock]

\* powFunc without the lifeCycle assignment.
powFuncDone_NoMarker(s, nonce) ==
    _beforeSignTx(
        [s EXCEPT !.accountBlock = [s.powArg EXCEPT
                                        !.difficulty = s.checkPowResult.difficulty,
                                        !.nonce = nonce]])

\* Step 3, after pow resolved with the block carrying the nonce.
powFuncDone(s, nonce) ==
    _beforeSignTx(
        [s EXCEPT !.accountBlock = [s.powArg EXCEPT
                                        !.difficulty = s.checkPowResult.difficulty,
                                        !.nonce = nonce],
                  !.lifeCycle = "powDone"])

\* Step 2.
_beforePow(s) ==
    IF "beforePow" \notin s.hooks THEN powFunc(s, FALSE)
    ELSE [s EXCEPT !.pc = "beforePow"]

\* Step 1, up to the await of calcPoWDifficulty.
checkFunc(s, usePledgeQuota) ==
    [s EXCEPT !.pc = "calcPoWDifficulty",
              !.usePledgeQuota = usePledgeQuota,
              !.calls.oracle = @ + 1]

\* checkFunc setting the marker back to 'start'.
checkFuncDone_MarkerBack(s, res) ==
    LET s1 == [s EXCEPT !.checkPowResult = res, !.lifeCycle = "start"]
    IN  IF res.difficulty = Null THEN _beforeSendTx(s1) ELSE _beforePow(s1)

\* checkFunc without the test of the difficulty.
checkFuncDone_AlwaysPow(s, res) ==
    _beforePow([s EXCEPT !.checkPowResult = res, !.lifeCycle = "checkPowDone"])

\* Step 1, after calcPoWDifficulty resolved: without a difficulty the
\* pipeline goes on at _beforeSendTx, else at _beforePow.
checkFuncDone(s, res) ==
    LET s1 == [s EXCEPT !.checkPowResult = res, !.lifeCycle = "checkPowDone"]
    IN  IF res.difficulty = Null THEN _beforeSendTx(s1) ELSE _beforePow(s1)

\* First: after getBlock resolved with the block at the resolved position.
gotBlock(s, block) ==
    LET s1 == [s EXCEPT !.accountBlock = block, !.lifeCycle = "beforeCheckPow"]
    IN  IF "beforeCheckPow" \notin s.hooks THEN checkFunc(s1, TRUE)
        ELSE [s1 EXCEPT !.pc = "beforeCheckPow"]

\* getBlock[methodName](...params): the block of the request, placed after
\* the chain tip the node answered.
getBlock(blockType, latest) ==
    setHeight([NoBlock EXCEPT !.blockType = blockType], getHeight(latest))

----------------------------------------------------------------------------
\* Client.sendRawTx(accountBlock, privateKey).

\* What a caller may pass as accountBlock: nothing, a block that
\* validReqAccountBlock refuses, or a request block built for the tip `latest`.
RawTxBlocks(latest) ==
    {[given |-> FALSE, valid |-> FALSE, block |-> NoBlock],
     [given |-> TRUE, valid |-> FALSE, block |-> NoBlock]}
    \cup {[given |-> TRUE, valid |-> TRUE, block |-> getBlock(t, latest)] :
            t \in BlockTypes}

\* checkParams: both parameters are required and the block must be valid.
sendRawTxParamsError(accountBlock, privateKey) ==
    \/ ~accountBlock.given
    \/ privateKey = Null
    \/ ~accountBlock.valid

\* Up to the await of tx.sendRawTx: a params error rejects at once, else the
\* block is signed and handed to the node.
sendRawTx(s, accountBlock, privateKey) ==
    IF sendRawTxParamsError(accountBlock, privateKey) THEN Thrown(s)
    ELSE [s EXCEPT !.pc = "tx.sendRawTx",
                   !.accountBlock = signAccountBlock(accountBlock.block, privateKey),
                   !.calls.sign = @ + 1,
                   !.calls.submit = @ + 1]

\* tx.sendRawTx resolved: its answer is returned.
sendRawTxDone(s) ==
    [s EXCEPT !.pc = "returned",
              !.result = [NoResult EXCEPT !.kind = "ack"]]

\* sendRawTx without the catch.
sendRawTxCaught_NoBlock(s) == Thrown(s)

\* tx.sendRawTx rejected: the catch attaches the signed block to the error.
sendRawTxCaught(s) ==
    [s EXCEPT !.pc = "failed",
              !.result = [NoResult EXCEPT !.kind = "error", !.hasBlock = TRUE,
                                          !.accountBlock = s.accountBlock]]

----------------------------------------------------------------------------
\* AccountBlockClass (src/src/transaction/accountBlock.ts).

\* The other key pair belongs to somebody else.
OtherPrivateKey == "otherPrivKey"

OtherPublicKey == "otherPubKey"

\* height?: Uint64 before setHeight (heights of blocks start at 1).
NoHeight == 0

\* How many getter frames the call stack of the engine holds.
StackLimit == 3

\* The request fields a caller hands to the constructor.
Requests ==
    {[blockType |-> t, address |-> a, fee |-> "0", data |-> Undefined,
      sendBlockHash |-> Undefined, amount |-> "100", toAddress |-> OtherAddress,
      tokenId |-> "tti"] : t \in {Undefined, "send"}, a \in {"vite_bad", Address}}

\* utils.checkAccountBlock: null, or the error for a missing or malformed
\* field.
checkAccountBlock(req) ==
    IF req.blockType \notin BlockTypes THEN "paramsMissing"
    ELSE IF req.address \notin {Address, OtherAddress} THEN "paramsFormat"
    ELSE Null

\* No object was constructed.
NoObject ==
    [exists |-> FALSE, blockType |-> Undefined, address |-> Undefined,
     fee |-> Undefined, data |-> Undefined, sendBlockHash |-> Undefined,
     toAddress |-> Undefined, tokenId |-> Undefined, amount |-> Undefined,
     height |-> NoHeight, previousHash |-> <<>>, difficulty |-> Undefined,
     nonce |-> Undefined, signature |-> NoSignature, publicKey |-> <<>>]

\* A key argument: a hex string, a Buffer, something else, or nothing.
KeyForms == {"hex", "buffer"}

NoKey == [form |-> "missing", key |-> Undefined]

KeyArgs(keys) ==
    {NoKey, [form |-> "malformed", key |-> "zz"]}
    \cup {[form |-> "hex", key |-> k] : k \in keys}
    \cup {[form |-> "buffer", key |-> CHOOSE k \in keys : TRUE]}

PrivateKeyArgs == KeyArgs({PrivateKey, OtherPrivateKey})

PublicKeyArgs == KeyArgs({PublicKey, OtherPublicKey})

\* checkParams of one required key with the Buffer-or-hex-string check.
keyParamsError(arg) ==
    IF arg.form = "missing" THEN "paramsMissing"
    ELSE IF arg.form \notin KeyForms THEN "paramsFormat"
    ELSE Null

\* hdwallet/address.
getAddressFromPublicKey(publicKey) ==
    IF publicKey = PublicKey THEN Address ELSE OtherAddress

createAddressByPrivateKey(privateKey) ==
    IF privateKey = PrivateKey
    THEN [address |-> Address, publicKey |-> PublicKey]
    ELSE [address |-> OtherAddress, publicKey |-> OtherPublicKey]

\* Buffer.toString('base64') and its inverse.
Base64(bytes) == <<"base64", bytes>>

FromBase64(text) == text[2]

\* The answers of the node to ledger_getLatestAccountBlock: null, or a block
\* object whose height and hash may each be there or not.
TipResponses ==
    {NoLatest}
    \cup {[present |-> TRUE, height |-> h, hash |-> x] :
            h \in {0, 1}, x \in {<<>>, <<"h1">>}}

NoPosition == [height |-> NoHeight, previousHash |-> <<>>]

\* The outcome of evaluating a getter.
RangeError == [threw |-> TRUE, error |-> "RangeError"]

\* utils.getAccountBlockHash over the fields of the getter's object, in the
\* order of the wire format.
hashOfFields(ab) ==
    <<ab.blockType, ab.address, ab.previousHash, ab.toAddress, ab.amount,
      ab.tokenId, ab.data, ab.fee, ab.sendBlockHash, ab.height, ab.nonce>>

RECURSIVE get_accountBlock(_, _), get_hash(_, _)

\* get accountBlock(): a copy of the fields with hash: this.hash.  depth is
\* the number of getter frames on the stack.
get_accountBlock(self, depth) ==
    IF depth >= StackLimit THEN RangeError
    ELSE LET h == get_hash(self, depth + 1) IN
         IF h.threw THEN h
         ELSE [threw |-> FALSE,
               value |-> [blockType |-> self.blockType, address |-> self.address,
                          fee |-> self.fee, data |-> self.data,
                          sendBlockHash |-> self.sendBlockHash,
                          toAddress |-> self.toAddress, tokenId |-> self.tokenId,
                          amount |-> self.amount, height |-> self.height,
                          previousHash |-> self.previousHash,
                          difficulty |-> self.difficulty, nonce |-> self.nonce,
                          hash |-> h.value, publicKey |-> self.publicKey,
                          signature |-> self.signature]]

\* get hash(): getAccountBlockHash(this.accountBlock).
get_hash(self, depth) ==
    IF depth >= StackLimit THEN RangeError
    ELSE LET ab == get_accountBlock(self, depth + 1) IN
         IF ab.threw THEN ab
         ELSE [threw |-> FALSE, value |-> hashOfFields(ab.value)]

\* The operation last called on the object: what it was given, the request
\* it awaits (pc), how it ended and what it called.
NoBlockCalls == [tip |-> 0, oracle |-> 0, solver |-> 0]

\* What autoSetNonce resolves with.
NoPair == [difficulty |-> Undefined, nonce |-> Undefined]

NoOp ==
    [op |-> "none", pc |-> "done", outcome |-> "none", error |-> Null,
     request |-> CHOOSE r \in Requests : TRUE, key |-> NoKey, latest |-> NoLatest,
     position |-> NoPosition, value |-> Undefined, hash |-> <<>>,
     pair |-> NoPair, calls |-> NoBlockCalls]

Called(op) == [NoOp EXCEPT !.op = op]

Throws(o, error) == [o EXCEPT !.pc = "done", !.outcome = "thrown", !.error = error]

Returns(o) == [o EXCEPT !.pc = "done", !.outcome = "returned"]

\* constructor: if (!err) { throw err; }
constructorThrows(req) == ~(checkAccountBlock(req) # Null)

constructor(req) ==
    [NoObject EXCEPT !.exists = TRUE, !.blockType = req.blockType,
                     !.address = req.address, !.fee = req.fee, !.data = req.data,
                     !.sendBlockHash = req.sendBlockHash, !.amount = req.amount,
                     !.toAddress = req.toAddress, !.tokenId = req.tokenId]

\* setHeight, setDifficulty, setNonce, setSignature: plain assignments.
AccountBlockClass_setHeight(self, pos) ==
    [self EXCEPT !.height = pos.height, !.previousHash = pos.previousHash]

setDifficulty(self, difficulty) == [self EXCEPT !.difficulty = difficulty]

setNonce(self, nonce) == [self EXCEPT !.nonce = nonce]

setSignature(self, signature) == [self EXCEPT !.signature = signature]

\* getDifficulty up to its await: checkParams(this.accountBlock,
\* ['previousHash']) first evaluates the getter.
getDifficulty(self) ==
    LET o == Called("getDifficulty")
        ab == get_accountBlock(self, 0) IN
    IF ab.threw THEN Throws(o, ab.error)
    ELSE IF ab.value.previousHash = <<>> THEN Throws(o, "paramsMissing")
    ELSE [o EXCEPT !.pc = "ledger_getPoWDifficulty", !.calls.oracle = @ + 1]

\* getNonce without its checkParams.
getNonceParamsError_None(self) == FALSE

\* getNonce: checkParams of difficulty and previousHash, both required.
getNonceParamsError(self) ==
    \/ self.difficulty \in {Undefined, Null}
    \/ self.previousHash = <<>>

\* getNonce: the solver is asked and its promise returned.
getNonce(self) ==
    LET o == Called("getNonce") IN
    IF getNonceParamsError(self) THEN Throws(o, "paramsMissing")
    ELSE [o EXCEPT !.pc = "util_getPoWNonce", !.calls.solver = @ + 1]

\* setPublicKey storing whatever it is given.
setPublicKeyWrong_Never(self, arg) == FALSE

\* setPublicKey: this.address !== address.
setPublicKeyWrong(self, arg) == self.address # getAddressFromPublicKey(arg.key)

\* setPublicKey: the error it throws, or null.
setPublicKeyError(self, arg) ==
    IF keyParamsError(arg) # Null THEN keyParamsError(arg)
    ELSE IF setPublicKeyWrong(self, arg) THEN "PublicKey is wrong."
    ELSE Null

\* setPublicKey: the object afterwards.
setPublicKey(self, arg) ==
    IF setPublicKeyError(self, arg) # Null THEN self
    ELSE [self EXCEPT !.publicKey = Base64(arg.key)]

\* sign: the error it throws, or null when it returns.
signError(self, arg) ==
    IF keyParamsError(arg) # Null THEN keyParamsError(arg)
    ELSE LET pair == createAddressByPrivateKey(arg.key)
             pub == [form |-> "buffer", key |-> pair.publicKey]
             h == get_hash(setPublicKey(self, pub), 0)
             ab == get_accountBlock(setPublicKey(self, pub), 0) IN
         IF self.address # pair.address THEN "PrivateKey is wrong."
         ELSE IF setPublicKeyError(self, pub) # Null THEN setPublicKeyError(self, pub)
         ELSE IF h.threw THEN h.error
         ELSE IF ab.threw THEN ab.error
         ELSE Null

\* sign: the object afterwards; what was assigned before a throw stays.
sign(self, arg) ==
    IF keyParamsError(arg) # Null THEN self
    ELSE LET pair == createAddressByPrivateKey(arg.key)
             pub == [form |-> "buffer", key |-> pair.publicKey]
             keyed == setPublicKey(self, pub)
             h == get_hash(keyed, 0) IN
         IF self.address # pair.address THEN self
         ELSE IF setPublicKeyError(self, pub) # Null THEN self
         ELSE IF h.threw THEN keyed
         ELSE setSignature(keyed, Sign(h.value, arg.key))

InitBlock ==
    /\ blk = NoObject
    /\ bop = NoOp

----------------------------------------------------------------------------
\* AccountClass: the balance loop and the receive loop (activate, freeze,
\* autoReceiveTx, stopAutoReceiveTx).

\* How many loop chains (a pending timer or a tick in flight) are followed.
MaxChains == 3

\* How many inbound blocks wait for the account at the start.
MaxPending == 2

\* The hash of the k-th pending inbound block, the oldest being the first.
OnroadHash(k) == <<"onroad", k>>

OnroadQueues == {[k \in 1..n |-> OnroadHash(k)] : n \in 0..MaxPending}

\* What getBalance resolves with: null, a balance without onroad, an onroad
\* without tokenBalanceInfoMap, or one whose map has entries.
Summaries == {"null", "noOnroad", "noMap", "entries"}

\* _receive asking for the second page.
receiveQuery_SecondPage == [index |-> 1, pageCount |-> 1]

\* The query of _receive.
receiveQuery == [index |-> 0, pageCount |-> 1]

\* The node's answer to getOnroadBlocks: the page of the pending queue.
getOnroadBlocks(queue, query) ==
    LET first == query.index * query.pageCount + 1
        last == IF (query.index + 1) * query.pageCount < Len(queue)
                THEN (query.index + 1) * query.pageCount ELSE Len(queue) IN
    [k \in 1..(IF last < first THEN 0 ELSE last - first + 1) |->
        [hash |-> queue[first + k - 1]]]

\* A chain of a loop: the loop it belongs to, what it waits for (its timer
\* or the call of its tick), and the fromBlockHash of its tick.
Chain(kind, pc) == [kind |-> kind, pc |-> pc, from |-> <<>>]

\* loop() of activate past its _lock test: getBalance is requested.
balanceLoop == Chain("balance", "getBalance")

\* loop() of autoReceiveTx past its flag test: _receive requests the page.
receiveLoop == Chain("receive", "getOnroadBlocks")

\* _t(): the timer of the next tick is set.
_t(lp) == Chain(lp.kind, "timer")

\* The then-callback of activate starting the receive loop whatever it got.
balanceInfos_Always(summary) == TRUE

\* balanceInfos of the then-callback of activate.
balanceInfos(summary) == summary \notin {"null", "noOnroad", "noMap"}

\* _receive calling receiveTx whatever the page holds.
_receive_NoTest(lp, result) ==
    [lp EXCEPT !.pc = "getBlock.receiveTx",
               !.from = IF Len(result) = 0 THEN <<>> ELSE result[1].hash]

\* _receive after its await: nothing waits (null is returned to the then of
\* loop), or receiveTx is called with the hash of the first block.
_receive(lp, result) ==
    IF Len(result) = 0 THEN _t(lp)
    ELSE [lp EXCEPT !.pc = "getBlock.receiveTx", !.from = result[1].hash]

InitLoops ==
    /\ _lock = TRUE
    /\ _autoReceive = FALSE
    /\ balance = "null"
    /\ loops = EmptyBag
    /\ received = <<>>

----------------------------------------------------------------------------
\* The actions.

Idle == Closure("idle")

Absent == Closure("absent")

Terminal == {"idle", "absent", "returned", "failed"}

TypeOK ==
    /\ runs \in 0..MaxRuns
    /\ \A i \in Inv : inv[i].pc \in
          Terminal \cup HookNames \cup
          {"getBlock", "calcPoWDifficulty", "pow", "sendAccountBlock", "stalled",
           "tx.sendRawTx"}

----------------------------------------------------------------------------
\* The client and its RPC namespaces.

\* The catalogue of RPC methods, by namespace.
rpcMethods ==
    [wallet |-> {"listEntropyFilesInStandardDir", "listAllEntropyFiles", "unlock",
                 "lock", "listEntropyStoreAddresses", "newMnemonicAndEntropyStore",
                 "deriveForIndexPath", "recoverEntropyStoreFromMnemonic",
                 "globalCheckAddrUnlocked", "isAddrUnlocked", "isUnlocked",
                 "findAddr", "globalFindAddr", "createTxWithPassphrase",
                 "addEntropyStore"},
     net |-> {"syncInfo", "peers"},
     onroad |-> {"getOnroadBlocksByAddress", "getAccountOnroadInfo",
                 "listWorkingAutoReceiveWorker", "startAutoReceive",
                 "stopAutoReceive"},
     contract |-> {"getCreateContractToAddress"},
     pledge |-> {"getPledgeData", "getCancelPledgeData", "getPledgeQuota",
                 "getPledgeList"},
     register |-> {"getRegistrationList", "getRegisterData", "getCancelRegisterData",
                   "getRewardData", "getUpdateRegistrationData", "getCandidateList"},
     vote |-> {"getVoteData", "getCancelVoteData", "getVoteInfo"},
     mintage |-> {"getMintageData", "getMintageCancelPledgeData"},
     consensusGroup |-> {"getConditionRegisterOfPledge", "getConditionVoteOfDefault",
                         "getConditionVoteOfKeepToken", "getCreateConsensusGroupData",
                         "getCancelConsensusGroupData",
                         "getReCreateConsensusGroupData"},
     ledger |-> {"getBlocksByAccAddr", "getAccountByAccAddr",
                 "getLatestSnapshotChainHash", "getLatestBlock", "getTokenMintage",
                 "getBlocksByHash", "getSnapshotChainHeight",
                 "getFittestSnapshotHash"},
     tx |-> {"sendRawTx"}]

\* The methods of the subscribe namespace.
subscribeMethods ==
    {"newAccountBlocksFilter", "newLogsFilter", "uninstallFilter",
     "getFilterChanges", "newAccountBlocks", "newLogs", "getLogs"}

Namespaces == DOMAIN rpcMethods \cup {"subscribe"}

\* methods of the constant package: for every namespace, the RPC name of each
\* of its methods.
methods ==
    [namespace \in Namespaces |->
        LET names == IF namespace = "subscribe" THEN subscribeMethods
                     ELSE rpcMethods[namespace]
        IN  [methodName \in names |-> <<namespace, methodName>>]]

\* provider.type as the callers give it; a provider may have none.
ProviderTypes == {Undefined, "ipc", "IPC", "http", "ws"}

toLowerCase(str) == IF str = "IPC" THEN "ipc" ELSE str

\* The field of the client a namespace is wired to.
FieldOf(namespace) == IF namespace = "subscribe" THEN "subscribeFunc" ELSE namespace

Fields == {FieldOf(namespace) : namespace \in Namespaces}

\* A field of the client: undefined, null, or an object of functions, each
\* calling this.request with the RPC name it was built with.
NoField == [is |-> "undefined", members |-> <<>>]

NullField == [is |-> "null", members |-> <<>>]

NoRequest == <<>>

\* _setMethodsName that wires wallet whatever the provider.
_setMethodsName_WalletAlways(self) ==
    [self EXCEPT !.fields =
        [f \in Fields |->
            LET namespace == CHOOSE n \in Namespaces : FieldOf(n) = f IN
            IF self.fields[f].is = "object" THEN self.fields[f]
            ELSE [is |-> "object", members |-> methods[namespace]]]]

_setMethodsName(self) ==
    LET providerType == toLowerCase(IF self.type = Undefined THEN "http" ELSE self.type)
    IN  [self EXCEPT !.fields =
            [f \in Fields |->
                LET namespace == CHOOSE n \in Namespaces : FieldOf(n) = f IN
                IF providerType # "ipc" /\ namespace = "wallet" THEN NullField
                ELSE IF self.fields[f].is = "object" THEN self.fields[f]
                ELSE [is |-> "object", members |-> methods[namespace]]]]

\* new Client(provider).
Client(provider) ==
    _setMethodsName([type |-> provider, fields |-> [f \in Fields |-> NoField],
                     requested |-> NoRequest])

\* setProvider compares the method toLowerCase itself, not its result, with
\* 'ipc'.
setProvider(self, provider) ==
    LET self1 == [self EXCEPT !.type = provider]
        member == "function toLowerCase"
    IN  IF member # "ipc" \/ self1.fields["wallet"].is = "object" THEN self1
        ELSE _setMethodsName(self1)

InitClient == client = Client("http")

NewClient(provider) ==
    /\ client' = Client(provider)
    /\ UNCHANGED <<chain, submitted, inv, runs, blockVars, loopVars>>

SetProvider(provider) ==
    /\ client' = setProvider(client, provider)
    /\ UNCHANGED <<chain, submitted, inv, runs, blockVars, loopVars>>

\* client[field][methodName](...args): the function calls this.request with
\* its RPC name.
CallMethod(field, methodName) ==
    /\ client.fields[field].is = "object"
    /\ methodName \in DOMAIN client.fields[field].members
    /\ client' = [client EXCEPT !.requested = client.fields[field].members[methodName]]
    /\ UNCHANGED <<chain, submitted, inv, runs, blockVars, loopVars>>

NextClient ==
    \/ \E provider \in ProviderTypes : NewClient(provider)
    \/ \E provider \in ProviderTypes : SetProvider(provider)
    \/ \E field \in Fields :
          \E methodName \in UNION {DOMAIN methods[n] : n \in Namespaces} :
              CallMethod(field, methodName)

\* Shared by the initial states: nothing was sent yet.
InitLedger ==
    /\ chain = <<>>
    /\ submitted = {}
    /\ runs = 0

\* One caller, invoking the pipeline again and again.
Init ==
    /\ InitLedger
    /\ InitClient
    /\ InitBlock
    /\ InitLoops
    /\ onroad = <<>>
    /\ inv = [i \in Inv |-> IF i = "a" THEN Idle ELSE Absent]

\* Two callers of the same account.
InitConc ==
    /\ InitLedger
    /\ InitClient
    /\ InitBlock
    /\ InitLoops
    /\ onroad = <<>>
    /\ inv = [i \in Inv |-> Idle]

\* sendPowTx is called: lifeCycle = 'start', getBlock is awaited.
Start(i, hooks, blockType) ==
    /\ inv[i].pc \in {"idle", "returned", "failed"}
    /\ inv[i].pc2 \notin {"pow", "sendAccountBlock"}
    /\ runs < MaxRuns
    /\ runs' = runs + 1
    /\ inv' = [inv EXCEPT ![i] =
                  [Idle EXCEPT !.pc = "getBlock", !.op = "sendPowTx",
                               !.hooks = hooks,
                               !.lifeCycle = "start", !.request = blockType,
                               !.calls.tip = 1]]
    /\ UNCHANGED <<chain, submitted, blockVars, loopVars, client>>

\* getBlock resolves: the node answers its tip as of now.
GetBlockDone(i) ==
    /\ inv[i].pc = "getBlock"
    /\ inv' = [inv EXCEPT ![i] =
                  gotBlock(inv[i], getBlock(inv[i].request, LatestAccountBlock))]
    /\ UNCHANGED <<chain, submitted, runs, blockVars, loopVars, client>>

\* An awaited external call (chain tip, oracle, solver) rejects.
ExternalFails(i) ==
    /\ inv[i].pc \in {"getBlock", "calcPoWDifficulty", "pow"}
    /\ inv' = [inv EXCEPT ![i] = Thrown(inv[i])]
    /\ UNCHANGED <<chain, submitted, runs, blockVars, loopVars, client>>

\* calcPoWDifficulty resolves.
CheckDone(i, difficulty) ==
    /\ inv[i].pc = "calcPoWDifficulty"
    /\ inv' = [inv EXCEPT ![i] =
                  checkFuncDone(inv[i], [difficulty |-> difficulty])]
    /\ UNCHANGED <<chain, submitted, runs, blockVars, loopVars, client>>

\* builtinTxBlock.pow resolves.
PowDone(i, nonce) ==
    /\ inv[i].pc = "pow"
    /\ inv' = [inv EXCEPT ![i] = powFuncDone(inv[i], nonce)]
    /\ UNCHANGED <<chain, submitted, runs, blockVars, loopVars, client>>

\* The continuation a hook is given, called without an argument or with the
\* reject signal true.  The parameter of checkFunc is usePledgeQuota, with
\* the default true: it is true either way.
Continue(s, hook, isReject) ==
    CASE hook = "beforeCheckPow" -> checkFunc(s, TRUE)
      [] hook = "beforePow"      -> powFunc(s, isReject)
      [] hook = "beforeSignTx"   -> signTx(s, isReject)
      [] hook = "beforeSendTx"   -> sendTxFunc(s, isReject)

\* A hook that keeps its continuation calling it all the same.
Stalled_Proceeds(s) == Continue(s, s.pc, FALSE)

\* A hook returned without calling its continuation, and never will: the
\* closure is left where it is.
Stalled(s) == [s EXCEPT !.pc = "stalled"]

\* A registered hook runs: it calls its continuation, with or without the
\* reject signal, or never does.  sendPowTx returns what the hook returns,
\* taken to be what its continuation returned.
Hook(i, hook, does) ==
    /\ inv[i].pc = hook
    /\ LET s == [inv[i] EXCEPT !.hookDid[hook] = does]
       IN  inv' = [inv EXCEPT ![i] =
                      IF does = "stall" THEN Stalled(s)
                      ELSE Continue(s, hook, does = "reject")]
    /\ UNCHANGED <<chain, submitted, runs, blockVars, loopVars, client>>

\* What the node receives from caller i.
Submission(i) ==
    [by |-> i, op |-> inv[i].op, block |-> inv[i].accountBlock]

\* sendAccountBlock(accountBlock) hands the block, and nothing else, to the
\* client: the call is the submission of a finished block to the node, it
\* neither signs the block nor attaches it to a failure.  It resolves: the
\* node took the block.
SendDone(i) ==
    /\ inv[i].pc = "sendAccountBlock"
    /\ NodeAccepts(inv[i].sendArg)
    /\ chain' = Append(chain, inv[i].sendArg)
    /\ submitted' = submitted \cup {[Submission(i) EXCEPT !.block = inv[i].sendArg]}
    /\ inv' = [inv EXCEPT ![i] = sendTxFuncDone(inv[i])]
    /\ UNCHANGED <<runs, blockVars, loopVars, client>>

\* sendAccountBlock rejects: the node refused the block, or the transport
\* failed.
SendFails(i) ==
    /\ inv[i].pc = "sendAccountBlock"
    /\ submitted' = submitted \cup {[Submission(i) EXCEPT !.block = inv[i].sendArg]}
    /\ inv' = [inv EXCEPT ![i] = Thrown(inv[i])]
    /\ UNCHANGED <<chain, runs, blockVars, loopVars, client>>

\* Client.sendRawTx is called.
SendRawTx(i, accountBlock, privateKey) ==
    /\ inv[i].pc \in {"idle", "returned", "failed"}
    /\ runs < MaxRuns
    /\ runs' = runs + 1
    /\ inv' = [inv EXCEPT ![i] =
                  sendRawTx([Idle EXCEPT !.op = "sendRawTx"],
                            accountBlock, privateKey)]
    /\ UNCHANGED <<chain, submitted, blockVars, loopVars, client>>

\* tx.sendRawTx resolves: the node took the block.
RawTxDone(i) ==
    /\ inv[i].pc = "tx.sendRawTx"
    /\ NodeAccepts(inv[i].accountBlock)
    /\ chain' = Append(chain, inv[i].accountBlock)
    /\ submitted' = submitted \cup {Submission(i)}
    /\ inv' = [inv EXCEPT ![i] = sendRawTxDone(inv[i])]
    /\ UNCHANGED <<runs, blockVars, loopVars, client>>

\* tx.sendRawTx rejects.
RawTxFails(i) ==
    /\ inv[i].pc = "tx.sendRawTx"
    /\ submitted' = submitted \cup {Submission(i)}
    /\ inv' = [inv EXCEPT ![i] = sendRawTxCaught(inv[i])]
    /\ UNCHANGED <<chain, runs, blockVars, loopVars, client>>

Next ==
    \E i \in Inv :
        \/ \E hooks \in SUBSET HookNames, t \in BlockTypes : Start(i, hooks, t)
        \/ GetBlockDone(i)
        \/ ExternalFails(i)
        \/ \E d \in Difficulties : CheckDone(i, d)
        \/ \E n \in Nonces : PowDone(i, n)
        \/ \E h \in HookNames, does \in HookBehaviours : Hook(i, h, does)
        \/ SendDone(i)
        \/ SendFails(i)
        \/ \E b \in RawTxBlocks(LatestAccountBlock), k \in {Null, PrivateKey} :
              SendRawTx(i, b, k)
        \/ RawTxDone(i)
        \/ RawTxFails(i)

\* One caller at a time.
Spec == Init /\ [][Next]_vars

\* Clients are constructed, given other providers, and their methods called.
SpecClient == Init /\ [][NextClient]_vars

\* The same without registered hooks.
NextConc ==
    \E i \in Inv :
        \/ \E t \in BlockTypes : Start(i, {}, t)
        \/ GetBlockDone(i)
        \/ ExternalFails(i)
        \/ \E d \in Difficulties : CheckDone(i, d)
        \/ \E n \in Nonces : PowDone(i, n)
        \/ SendDone(i)
        \/ SendFails(i)

\* Two callers interleaved, neither registering a hook.
SpecConc == InitConc /\ [][NextConc]_vars

\* Caller a registers one hook, which calls its continuation or never does,
\* while caller b runs the pipeline without hooks.
NextStall ==
    \/ \E h \in HookNames, t \in BlockTypes : Start("a", {h}, t)
    \/ \E h \in HookNames, does \in {"proceed", "stall"} : Hook("a", h, does)
    \/ \E t \in BlockTypes : Start("b", {}, t)
    \/ \E i \in Inv :
          \/ GetBlockDone(i)
          \/ ExternalFails(i)
          \/ \E d \in Difficulties : CheckDone(i, d)
          \/ \E n \in Nonces : PowDone(i, n)
          \/ SendDone(i)
          \/ SendFails(i)

SpecStall == InitConc /\ [][NextStall]_vars

\* account.signAccountBlock(accountBlock) called on a block built for the
\* chain's tip, with the accountAddress the caller left on it.
SignAccountBlock(i, accountAddress, blockType) ==
    /\ inv[i].pc \in {"idle", "returned", "failed"}
    /\ inv[i].pc2 \notin {"pow", "sendAccountBlock"}
    /\ runs < MaxRuns
    /\ runs' = runs + 1
    /\ LET o == [Idle EXCEPT !.op = "signAccountBlock", !.request = blockType]
           b == getBlock(blockType, LatestAccountBlock)
           r == AccountClass_signAccountBlock(b, accountAddress)
       IN  inv' = [inv EXCEPT ![i] =
                      IF r.threw
                      THEN [Thrown(o) EXCEPT !.accountBlock = b,
                                             !.accountAddress = accountAddress]
                      ELSE [o EXCEPT !.pc = "returned",
                                     !.accountBlock = r.block,
                                     !.accountAddress = r.accountAddress,
                                     !.calls.sign = @ + 1]]
    /\ UNCHANGED <<chain, submitted, blockVars, loopVars, client>>

\* Two callers signing blocks themselves and running the pipeline without
\* hooks.
NextSign ==
    \E i \in Inv :
        \/ \E a \in {Undefined, Address, OtherAddress}, t \in BlockTypes :
              SignAccountBlock(i, a, t)
        \/ \E t \in BlockTypes : Start(i, {}, t)
        \/ GetBlockDone(i)
        \/ ExternalFails(i)
        \/ \E d \in Difficulties : CheckDone(i, d)
        \/ \E n \in Nonces : PowDone(i, n)
        \/ SendDone(i)
        \/ SendFails(i)

SpecSign == InitConc /\ [][NextSign]_vars

\* The nonces the solver answers two calls of one invocation with.
SolverNonces == Nonces \cup {"nonce2"}

\* The closure as the calls started by a second call of a continuation see
\* it: lifeCycle, checkPowResult and accountBlock are the closure's, the
\* position and the argument of the pending call are their own.
Second(s) == [s EXCEPT !.pc = s.pc2, !.sendArg = s.sendArg2]

\* The closure s after the second strand went on to t. The promise of the
\* second strand is not the one the caller holds.
Merge(s, t) ==
    [t EXCEPT !.pc = s.pc, !.sendArg = s.sendArg, !.result = s.result,
              !.pc2 = t.pc, !.sendArg2 = t.sendArg]

\* A registered hook calls its continuation two times in a row. Each call
\* runs up to its first await; the argument of an awaited call is evaluated
\* when the call is made.
HookTwice(i, hook) ==
    /\ inv[i].pc = hook
    /\ LET s == [inv[i] EXCEPT !.hookDid[hook] = "twice"]
           t == Continue(s, hook, FALSE)
       IN  inv' = [inv EXCEPT ![i] = Merge(t, Continue(t, hook, FALSE))]
    /\ UNCHANGED <<chain, submitted, runs, blockVars, loopVars, client>>

\* The solver answers the second call.
PowDone2(i, nonce) ==
    /\ inv[i].pc2 = "pow"
    /\ inv' = [inv EXCEPT ![i] = Merge(inv[i], powFuncDone(Second(inv[i]), nonce))]
    /\ UNCHANGED <<chain, submitted, runs, blockVars, loopVars, client>>

PowFails2(i) ==
    /\ inv[i].pc2 = "pow"
    /\ inv' = [inv EXCEPT ![i] = Merge(inv[i], Thrown(Second(inv[i])))]
    /\ UNCHANGED <<chain, submitted, runs, blockVars, loopVars, client>>

\* The node answers the submission of the second strand.
SendDone2(i) ==
    /\ inv[i].pc2 = "sendAccountBlock"
    /\ NodeAccepts(inv[i].sendArg2)
    /\ chain' = Append(chain, inv[i].sendArg2)
    /\ submitted' = submitted \cup {[Submission(i) EXCEPT !.block = inv[i].sendArg2]}
    /\ inv' = [inv EXCEPT ![i] = Merge(inv[i], sendTxFuncDone(Second(inv[i])))]
    /\ UNCHANGED <<runs, blockVars, loopVars, client>>

SendFails2(i) ==
    /\ inv[i].pc2 = "sendAccountBlock"
    /\ submitted' = submitted \cup {[Submission(i) EXCEPT !.block = inv[i].sendArg2]}
    /\ inv' = [inv EXCEPT ![i] = Merge(inv[i], Thrown(Second(inv[i])))]
    /\ UNCHANGED <<chain, runs, blockVars, loopVars, client>>

\* One caller whose beforePow hook may call powFunc two times.
NextTwice ==
    \/ \E hooks \in SUBSET {"beforePow"}, t \in BlockTypes : Start("a", hooks, t)
    \/ GetBlockDone("a")
    \/ ExternalFails("a")
    \/ \E d \in Difficulties : CheckDone("a", d)
    \/ \E does \in HookBehaviours : Hook("a", "beforePow", does)
    \/ HookTwice("a", "beforePow")
    \/ \E n \in SolverNonces : PowDone("a", n)
    \/ \E n \in SolverNonces : PowDone2("a", n)
    \/ PowFails2("a")
    \/ SendDone("a")
    \/ SendFails("a")
    \/ SendDone2("a")
    \/ SendFails2("a")

SpecTwice == Init /\ [][NextTwice]_vars

\* An external call that is outstanding is answered.
Answer(i) ==
    \/ GetBlockDone(i)
    \/ ExternalFails(i)
    \/ \E d \in Difficulties : CheckDone(i, d)
    \/ \E n \in Nonces : PowDone(i, n)
    \/ SendDone(i)
    \/ SendFails(i)
    \/ RawTxDone(i)
    \/ RawTxFails(i)

\* One caller at a time, every external call answering in the end.
FairSpec == Spec /\ \A i \in Inv : WF_vars(Answer(i))

\* The same for the two callers of SpecStall.
FairStall == SpecStall /\ \A i \in Inv : WF_vars(Answer(i))

----------------------------------------------------------------------------
\* The operations on an AccountBlockClass object.

\* new AccountBlock(req).
New(req) ==
    /\ bop.pc = "done"
    /\ bop' = IF constructorThrows(req)
              THEN Throws([Called("constructor") EXCEPT !.request = req],
                          checkAccountBlock(req))
              ELSE Returns([Called("constructor") EXCEPT !.request = req])
    /\ blk' = IF constructorThrows(req) THEN blk ELSE constructor(req)
    /\ UNCHANGED <<pipeVars, loopVars>>

\* getHeight is called: the chain tip is requested.
GetHeight ==
    /\ blk.exists /\ bop.pc = "done"
    /\ bop' = [Called("getHeight") EXCEPT !.pc = "ledger_getLatestAccountBlock",
                                          !.calls.tip = @ + 1]
    /\ UNCHANGED <<blk, pipeVars, loopVars>>

SetHeight(pos) ==
    /\ blk.exists /\ bop.pc = "done"
    /\ blk' = AccountBlockClass_setHeight(blk, pos)
    /\ bop' = Returns([Called("setHeight") EXCEPT !.position = pos])
    /\ UNCHANGED <<pipeVars, loopVars>>

\* autoSetNonce up to its first await: the call of getDifficulty.
autoSetNonce(self) == [getDifficulty(self) EXCEPT !.op = "autoSetNonce"]

\* autoSetNonce when the request it awaits was answered: the block and the
\* operation after it.
autoSetNonceAnswered(self, o, answer) ==
    IF o.pc = "ledger_getPoWDifficulty"
    THEN LET self1 == setDifficulty(self, answer) IN
         IF self1.difficulty \in {Undefined, Null}
         THEN LET self2 == setNonce(self1, Null) IN
              [self |-> self2,
               o |-> Returns([o EXCEPT !.pair = [difficulty |-> self2.difficulty,
                                                nonce |-> self2.nonce]])]
         ELSE LET n == getNonce(self1) IN
              [self |-> self1,
               o |-> [n EXCEPT !.op = "autoSetNonce",
                               !.calls = [o.calls EXCEPT !.solver = n.calls.solver]]]
    ELSE LET self2 == setNonce(self, answer) IN
         [self |-> self2,
          o |-> Returns([o EXCEPT !.pair = [difficulty |-> self2.difficulty,
                                           nonce |-> self2.nonce]])]

AutoSetNonce ==
    /\ blk.exists /\ bop.pc = "done"
    /\ bop' = autoSetNonce(blk)
    /\ UNCHANGED <<blk, pipeVars, loopVars>>

GetDifficulty ==
    /\ blk.exists /\ bop.pc = "done"
    /\ bop' = getDifficulty(blk)
    /\ UNCHANGED <<blk, pipeVars, loopVars>>

SetDifficulty(d) ==
    /\ blk.exists /\ bop.pc = "done"
    /\ blk' = setDifficulty(blk, d)
    /\ bop' = Returns([Called("setDifficulty") EXCEPT !.value = d])
    /\ UNCHANGED <<pipeVars, loopVars>>

GetNonce ==
    /\ blk.exists /\ bop.pc = "done"
    /\ bop' = getNonce(blk)
    /\ UNCHANGED <<blk, pipeVars, loopVars>>

SetNonce(n) ==
    /\ blk.exists /\ bop.pc = "done"
    /\ blk' = setNonce(blk, n)
    /\ bop' = Returns([Called("setNonce") EXCEPT !.value = n])
    /\ UNCHANGED <<pipeVars, loopVars>>

SetPublicKey(arg) ==
    /\ blk.exists /\ bop.pc = "done"
    /\ blk' = setPublicKey(blk, arg)
    /\ bop' = LET o == [Called("setPublicKey") EXCEPT !.key = arg] IN
              IF setPublicKeyError(blk, arg) # Null
              THEN Throws(o, setPublicKeyError(blk, arg))
              ELSE Returns(o)
    /\ UNCHANGED <<pipeVars, loopVars>>

SetSignature(sig) ==
    /\ blk.exists /\ bop.pc = "done"
    /\ blk' = setSignature(blk, sig)
    /\ bop' = Returns(Called("setSignature"))
    /\ UNCHANGED <<pipeVars, loopVars>>

SignBlock(arg) ==
    /\ blk.exists /\ bop.pc = "done"
    /\ blk' = sign(blk, arg)
    /\ bop' = LET o == [Called("sign") EXCEPT !.key = arg] IN
              IF signError(blk, arg) # Null THEN Throws(o, signError(blk, arg))
              ELSE Returns(o)
    /\ UNCHANGED <<pipeVars, loopVars>>

\* block.hash is read.
ReadHash ==
    /\ blk.exists /\ bop.pc = "done"
    /\ bop' = LET o == Called("hash")
                  h == get_hash(blk, 0) IN
              IF h.threw THEN Throws(o, h.error)
              ELSE Returns([o EXCEPT !.hash = h.value])
    /\ UNCHANGED <<blk, pipeVars, loopVars>>

\* The node answers the request an operation awaits, and the operation
\* returns: getHeight the position after the tip, getDifficulty and getNonce
\* the answer.
BlockResponse(latest, answer) ==
    /\ bop.pc # "done"
    /\ bop' = IF bop.op = "getHeight"
              THEN Returns([bop EXCEPT !.latest = latest,
                                       !.position = getHeight(latest)])
              ELSE IF bop.op = "autoSetNonce"
              THEN autoSetNonceAnswered(blk, bop, answer).o
              ELSE Returns([bop EXCEPT !.value = answer])
    /\ blk' = IF bop.op = "autoSetNonce"
              THEN autoSetNonceAnswered(blk, bop, answer).self
              ELSE blk
    /\ UNCHANGED <<pipeVars, loopVars>>

\* The request fails: the operation rejects with the error of the transport.
BlockRequestFails ==
    /\ bop.pc # "done"
    /\ bop' = Throws(bop, "rpc")
    /\ UNCHANGED <<blk, pipeVars, loopVars>>

NextBlock ==
    \/ \E req \in Requests : New(req)
    \/ GetHeight
    \/ \E latest \in TipResponses : SetHeight(getHeight(latest))
    \/ GetDifficulty
    \/ \E d \in Difficulties : SetDifficulty(d)
    \/ GetNonce
    \/ \E n \in Nonces : SetNonce(n)
    \/ AutoSetNonce
    \/ \E arg \in PublicKeyArgs : SetPublicKey(arg)
    \/ SetSignature(Sign(Default_Hash, PrivateKey))
    \/ \E arg \in PrivateKeyArgs : SignBlock(arg)
    \/ ReadHash
    \/ \E latest \in TipResponses, answer \in Difficulties \cup Nonces :
          BlockResponse(latest, answer)
    \/ BlockRequestFails

\* One caller working on one block object.
SpecBlock == Init /\ [][NextBlock]_vars

\* The operations that validate their input before an external call:
\* getDifficulty and getNonce of a block, and Client.sendRawTx.
NextValidation ==
    \/ \E req \in Requests : New(req)
    \/ \E latest \in TipResponses : SetHeight(getHeight(latest))
    \/ GetDifficulty
    \/ \E d \in Difficulties : SetDifficulty(d)
    \/ GetNonce
    \/ \E latest \in TipResponses, answer \in Difficulties \cup Nonces :
          BlockResponse(latest, answer)
    \/ BlockRequestFails
    \/ \E accountBlock \in RawTxBlocks(LatestAccountBlock) :
          \E privateKey \in {Null, PrivateKey} : SendRawTx("a", accountBlock, privateKey)
    \/ RawTxDone("a")
    \/ RawTxFails("a")

SpecValidation == Init /\ [][NextValidation]_vars

----------------------------------------------------------------------------
\* The two loops of an account.

One(lp) == SetToBag({lp})

Live(kind) == {lp \in BagToSet(loops) : lp.kind = kind}

\* How many chains of a loop are alive.
Count(kind) == BagCardinality([lp \in Live(kind) |-> loops[lp]])

HasFree == BagCardinality(loops) < MaxChains

\* Every state a chain can be in.
ChainStates ==
    {Chain(kind, "timer") : kind \in {"balance", "receive"}}
    \cup {balanceLoop, receiveLoop}
    \cup {[receiveLoop EXCEPT !.pc = pc, !.from = OnroadHash(k)] :
            pc \in {"getBlock.receiveTx", "sendRawTx"}, k \in 1..MaxPending}

\* What getBalance resolves with, given what waits for the account.
SummariesOf(queue) ==
    IF queue = <<>> THEN Summaries \ {"entries"} ELSE {"entries"}

\* activate(): a no-op unless frozen, else the balance loop starts with its
\* first getBalance.
Activate ==
    /\ HasFree
    /\ IF ~_lock THEN UNCHANGED <<_lock, loops>>
       ELSE /\ _lock' = FALSE
            /\ loops' = loops (+) One(balanceLoop)
    /\ UNCHANGED <<_autoReceive, balance, onroad, received, pipeVars, blockVars>>

\* freeze clearing the flag of the receive loop as well.
freeze_StopsBoth == [_lock |-> TRUE, _autoReceive |-> FALSE]

\* freeze(): the two flags afterwards.
freeze == [_lock |-> TRUE, _autoReceive |-> _autoReceive]

Freeze ==
    /\ _lock' = freeze._lock
    /\ _autoReceive' = freeze._autoReceive
    /\ UNCHANGED <<balance, loops, onroad, received, pipeVars, blockVars>>

\* autoReceiveTx(): a no-op when the flag is set, else the receive loop
\* starts with its first _receive.
AutoReceiveTx ==
    /\ HasFree
    /\ IF _autoReceive THEN UNCHANGED <<_autoReceive, loops>>
       ELSE /\ _autoReceive' = TRUE
            /\ loops' = loops (+) One(receiveLoop)
    /\ UNCHANGED <<_lock, balance, onroad, received, pipeVars, blockVars>>

\* stopAutoReceiveTx(): the two flags afterwards.
stopAutoReceiveTx == [_lock |-> _lock, _autoReceive |-> FALSE]

StopAutoReceiveTx ==
    /\ _lock' = stopAutoReceiveTx._lock
    /\ _autoReceive' = stopAutoReceiveTx._autoReceive
    /\ UNCHANGED <<balance, loops, onroad, received, pipeVars, blockVars>>

\* loop() going on whatever the flag of its loop says.
loop_IgnoresStop(lp) ==
    IF lp.kind = "balance" THEN One(balanceLoop) ELSE One(receiveLoop)

\* loop() returning without a tick.
loop_Ends(lp) == EmptyBag

\* loop(): nothing when its loop was stopped, else the chain's next tick.
loop(lp) ==
    IF lp.kind = "balance"
    THEN IF _lock THEN EmptyBag ELSE One(balanceLoop)
    ELSE IF ~_autoReceive THEN EmptyBag ELSE One(receiveLoop)

\* The timer of a chain fires: loop() ends the chain when its loop was
\* stopped, else the next tick starts.
TimerFires(lp) ==
    /\ BagIn(lp, loops) /\ lp.pc = "timer"
    /\ loops' = (loops (-) One(lp)) (+) loop(lp)
    /\ UNCHANGED <<_lock, _autoReceive, balance, onroad, received, pipeVars, blockVars>>

\* getBalance resolves: the balance is stored, the timer set, and the receive
\* loop started (autoReceiveTx) or stopped (stopAutoReceiveTx).
BalanceFetched(lp, summary) ==
    /\ BagIn(lp, loops) /\ lp.pc = "getBalance"
    /\ balance' = summary
    /\ IF balanceInfos(summary)
       THEN IF _autoReceive
            THEN /\ loops' = (loops (-) One(lp)) (+) One(_t(lp))
                 /\ UNCHANGED _autoReceive
            ELSE /\ HasFree
                 /\ _autoReceive' = TRUE
                 /\ loops' = (loops (-) One(lp)) (+) One(_t(lp)) (+) One(receiveLoop)
       ELSE /\ _autoReceive' = FALSE
            /\ loops' = (loops (-) One(lp)) (+) One(_t(lp))
    /\ UNCHANGED <<_lock, onroad, received, pipeVars, blockVars>>

\* getOnroadBlocks resolves.
OnroadFetched(lp) ==
    /\ BagIn(lp, loops) /\ lp.pc = "getOnroadBlocks"
    /\ loops' = (loops (-) One(lp))
                   (+) One(_receive(lp, getOnroadBlocks(onroad, receiveQuery)))
    /\ UNCHANGED <<_lock, _autoReceive, balance, onroad, received, pipeVars, blockVars>>

\* getBlock.receiveTx resolves: _sendRawTx submits the response block.
ReceiveBuilt(lp) ==
    /\ BagIn(lp, loops) /\ lp.pc = "getBlock.receiveTx"
    /\ loops' = (loops (-) One(lp)) (+) One([lp EXCEPT !.pc = "sendRawTx"])
    /\ UNCHANGED <<_lock, _autoReceive, balance, onroad, received, pipeVars, blockVars>>

\* The node takes the response block: the inbound block it refers to waits
\* no longer; receiveTx resolves and the timer is set.
ReceiveSent(lp) ==
    /\ BagIn(lp, loops) /\ lp.pc = "sendRawTx"
    /\ \E k \in 1..Len(onroad) : onroad[k] = lp.from
    /\ onroad' = SelectSeq(onroad, LAMBDA h : h # lp.from)
    /\ received' = Append(received, lp.from)
    /\ loops' = (loops (-) One(lp)) (+) One(_t(lp))
    /\ UNCHANGED <<_lock, _autoReceive, balance, pipeVars, blockVars>>

\* A call of a tick rejects: the catch sets the timer all the same.
LoopCallFails(lp) ==
    /\ BagIn(lp, loops) /\ lp.pc # "timer"
    /\ loops' = (loops (-) One(lp)) (+) One(_t(lp))
    /\ UNCHANGED <<_lock, _autoReceive, balance, onroad, received, pipeVars, blockVars>>

NextLoops ==
    \/ Activate
    \/ Freeze
    \/ AutoReceiveTx
    \/ StopAutoReceiveTx
    \/ \E lp \in ChainStates :
          \/ TimerFires(lp)
          \/ \E summary \in SummariesOf(onroad) : BalanceFetched(lp, summary)
          \/ OnroadFetched(lp)
          \/ ReceiveBuilt(lp)
          \/ ReceiveSent(lp)
          \/ LoopCallFails(lp)

\* An account with what waits for it, its loops not started.
InitAccount ==
    /\ InitLedger
    /\ InitClient
    /\ InitBlock
    /\ InitLoops
    /\ inv = [i \in Inv |-> Absent]
    /\ onroad \in OnroadQueues

SpecLoops == InitAccount /\ [][NextLoops]_vars

\* The call a tick awaits returns: it resolves or rejects.
CallReturns(lp) ==
    \/ \E summary \in SummariesOf(onroad) : BalanceFetched(lp, summary)
    \/ OnroadFetched(lp)
    \/ ReceiveBuilt(lp)
    \/ ReceiveSent(lp)
    \/ LoopCallFails(lp)

\* Timers fire and every call of a tick returns, one way or the other.
FairTicks ==
    /\ SpecLoops
    /\ \A lp \in ChainStates :
          IF lp.pc = "timer" THEN WF_vars(TimerFires(lp)) ELSE WF_vars(CallReturns(lp))

\* Timers fire, and the calls of a receive tick do not fail for ever.
FairLoops ==
    /\ SpecLoops
    /\ WF_vars(TimerFires(Chain("receive", "timer")))
    /\ SF_vars(OnroadFetched(receiveLoop))
    /\ SF_vars(\E lp \in ChainStates : ReceiveBuilt(lp))
    /\ SF_vars(\E lp \in ChainStates : ReceiveSent(lp))

----------------------------------------------------------------------------
\* The properties.

Pipeline(i) == inv[i].op = "sendPowTx"

\* Caller i resolved its chain position and its submission is not answered.
Resolved(i) ==
    /\ Pipeline(i)
    /\ inv[i].pc \in HookNames \cup {"calcPoWDifficulty", "pow", "sendAccountBlock"}

Position(b) == <<b.height, b.prevHash>>

\* C1. Chain integrity: with the invocations of one account running one after
\* another, every block the pipeline hands to the node sits right after the
\* node's tip (height = tip height + 1 and previousHash = hash of the tip;
\* height 1 and the sentinel on an empty chain), so the accepted blocks are
\* linked: block k has height k and previousHash = hash(block k-1).
C1_ChainIntegrity ==
    /\ \A i \in Inv :
          Pipeline(i) /\ inv[i].pc = "sendAccountBlock" =>
              /\ inv[i].accountBlock.height = Len(chain) + 1
              /\ inv[i].accountBlock.prevHash =
                    IF chain = <<>> THEN Default_Hash
                    ELSE getAccountBlockHash(chain[Len(chain)])
    /\ \A k \in 1..Len(chain) :
          /\ chain[k].height = k
          /\ chain[k].prevHash = IF k = 1 THEN Default_Hash
                                 ELSE getAccountBlockHash(chain[k - 1])

\* Two blocks sent by the pipeline one after the other were both accepted.
C1_Witness ==
    /\ Len(chain) = 2
    /\ inv["a"].result.lifeCycle = "finish"
    /\ inv["a"].result.accountBlock = chain[2]
    /\ \A k \in 1..2 : \E e \in submitted : e.op = "sendPowTx" /\ e.block = chain[k]

\* C2. Per-account serialization: no caller resolves its chain position
\* while another caller of the account has resolved its own and its
\* submission is not yet answered, and no two callers submit blocks with the
\* same (height, previousHash).
C2_PerAccountSerialization ==
    /\ \A i, j \in Inv : i # j => ~(Resolved(i) /\ Resolved(j))
    /\ \A e, f \in submitted :
          e.by # f.by => Position(e.block) # Position(f.block)

\* C3. PoW skip: once the oracle answered without a difficulty, the solver is
\* never called in that invocation, the invocation is in no PoW or sign
\* stage, and when it returns without a hook having rejected it returns
\* 'finish'.
C3_PowSkip ==
    \A i \in Inv :
        Pipeline(i) /\ inv[i].checkPowResult.difficulty = Null =>
            /\ inv[i].calls.solver = 0
            /\ inv[i].pc \in {"beforeSendTx", "sendAccountBlock", "stalled",
                              "returned", "failed"}
            /\ (inv[i].pc = "returned" /\ inv[i].hookDid["beforeSendTx"] # "reject"
                    => inv[i].result.lifeCycle = "finish")
            /\ (inv[i].pc = "failed" => inv[i].calls.submit = 1)

\* An invocation without difficulty finished.
C3_Witness ==
    \E i \in Inv :
        /\ inv[i].checkPowResult.difficulty = Null
        /\ inv[i].result.lifeCycle = "finish"
        /\ inv[i].calls.oracle = 1

\* What holds of an invocation that hook h aborted: it returned its closure's
\* values, and neither a later stage ran nor was the block submitted.
Aborted(i, h) ==
    /\ inv[i].pc = "returned"
    /\ inv[i].result = [kind |-> "result", lifeCycle |-> inv[i].lifeCycle,
                        checkPowResult |-> inv[i].checkPowResult,
                        hasBlock |-> TRUE, accountBlock |-> inv[i].accountBlock]
    /\ inv[i].result.lifeCycle # "finish"
    /\ inv[i].calls.submit = 0
    /\ h = "beforeCheckPow" => inv[i].calls.oracle = 0
    /\ h \in {"beforeCheckPow", "beforePow"} => inv[i].calls.solver = 0
    /\ h \in {"beforeCheckPow", "beforePow", "beforeSignTx"} => inv[i].calls.sign = 0

\* C4, as claimed. Abort by any hook: a reject signal from any of the four
\* hooks makes the invocation return at once, without a later stage and
\* without a submission.
C4_AbortByAnyHook ==
    \A i \in Inv : \A h \in HookNames :
        inv[i].hookDid[h] = "reject" => Aborted(i, h)

\* C4, amended. The same for the three hooks beforePow, beforeSignTx and
\* beforeSendTx; the argument beforeCheckPow passes to its continuation is
\* usePledgeQuota, and the oracle is asked whatever it is.
C4_AbortByLaterHooks ==
    /\ \A i \in Inv : \A h \in HookNames \ {"beforeCheckPow"} :
          inv[i].hookDid[h] = "reject" => Aborted(i, h)
    /\ \A i \in Inv :
          inv[i].hookDid["beforeCheckPow"] \in {"proceed", "reject"} =>
              inv[i].calls.oracle = 1 /\ inv[i].usePledgeQuota

\* beforeSendTx rejected a signed block.
C4_Witness ==
    \E i \in Inv :
        /\ inv[i].hookDid["beforeSendTx"] = "reject"
        /\ inv[i].hookDid["beforeCheckPow"] = "reject"
        /\ inv[i].lifeCycle = "signDone"

\* C5. Abort at signing: when beforeSignTx rejects, the invocation returns
\* with lifeCycle 'powDone', the marker before signing, the returned block
\* carries the nonce and no signature, and nothing is signed or submitted.
C5_AbortAtSigning ==
    \A i \in Inv :
        inv[i].hookDid["beforeSignTx"] = "reject" =>
            /\ inv[i].pc = "returned"
            /\ inv[i].result.kind = "result"
            /\ inv[i].result.lifeCycle = "powDone"
            /\ inv[i].result.accountBlock.signature = NoSignature
            /\ inv[i].result.accountBlock.publicKey = Null
            /\ inv[i].result.accountBlock.nonce \in Nonces
            /\ inv[i].calls.sign = 0
            /\ inv[i].calls.submit = 0

\* beforeSignTx rejected.
C5_Witness ==
    \E i \in Inv :
        inv[i].hookDid["beforeSignTx"] = "reject" /\ inv[i].pc = "returned"

\* C6. Every block the pipeline hands to the node is signed.
C6_SubmittedIsSigned ==
    /\ \A e \in submitted : e.op = "sendPowTx" => IsSigned(e.block)
    /\ \A i \in Inv :
          Pipeline(i) /\ inv[i].pc = "sendAccountBlock" =>
              IsSigned(inv[i].accountBlock)

\* C7. Auto-advance and termination: an invocation without hooks waits only
\* for external calls, never for a hook; when it returns it returns
\* 'finish' with the block, having submitted once; and it does return or fail
\* once its external calls are answered.
C7_AutoAdvance ==
    /\ [](\A i \in Inv :
            Pipeline(i) /\ inv[i].hooks = {} =>
                /\ inv[i].pc \in {"getBlock", "calcPoWDifficulty", "pow",
                                  "sendAccountBlock", "returned", "failed"}
                /\ inv[i].pc = "returned" =>
                      /\ inv[i].result.kind = "result"
                      /\ inv[i].result.lifeCycle = "finish"
                      /\ inv[i].result.accountBlock = inv[i].accountBlock
                      /\ inv[i].result.checkPowResult = inv[i].checkPowResult
                      /\ inv[i].calls.submit = 1)
    /\ \A i \in Inv :
          (Pipeline(i) /\ inv[i].hooks = {} /\ inv[i].pc = "getBlock")
              ~> (inv[i].pc \in {"returned", "failed"})

\* An invocation without hooks went through PoW and signing and finished.
C7_Witness ==
    \E i \in Inv :
        /\ Pipeline(i) /\ inv[i].hooks = {}
        /\ inv[i].result.lifeCycle = "finish"
        /\ inv[i].calls.solver = 1
        /\ inv[i].calls.sign = 1

\* C8. 'finish' only after a successful submission: a result with lifeCycle
\* 'finish' exists only when the block was submitted, once, and the node took
\* it; an invocation whose submission failed has failed and has no result.
C8_FinishAfterSubmit ==
    \A i \in Inv :
        /\ inv[i].result.lifeCycle = "finish" =>
              /\ inv[i].pc = "returned"
              /\ inv[i].calls.submit = 1
              /\ \E k \in 1..Len(chain) : chain[k] = inv[i].result.accountBlock
              /\ [by |-> i, op |-> "sendPowTx",
                  block |-> inv[i].result.accountBlock] \in submitted
        /\ Pipeline(i) /\ inv[i].pc = "failed" =>
              /\ inv[i].result.kind = "error"
              /\ inv[i].result.lifeCycle # "finish"

\* A submission of the pipeline failed.
C8_Witness ==
    \E i \in Inv :
        /\ Pipeline(i)
        /\ inv[i].pc = "failed"
        /\ inv[i].calls.submit = 1
        /\ inv[i].calls.sign = 1

\* C9. No automatic retry: every external call is issued at most once in an
\* invocation, and after a failed call the invocation has failed with no
\* later stage begun.
C9_NoRetry ==
    \A i \in Inv :
        /\ \A c \in {"tip", "oracle", "solver", "submit"} : inv[i].calls[c] <= 1
        /\ inv[i].calls.sign <= 1
        /\ Pipeline(i) /\ inv[i].pc = "failed" =>
              /\ inv[i].result.kind = "error"
              /\ inv[i].lifeCycle = "start" =>
                    inv[i].calls = [NoCalls EXCEPT !.tip = 1]
              /\ inv[i].lifeCycle = "beforeCheckPow" =>
                    inv[i].calls = [NoCalls EXCEPT !.tip = 1, !.oracle = 1]
              /\ inv[i].lifeCycle = "checkPowDone" =>
                    /\ inv[i].calls.sign = 0
                    /\ inv[i].calls.solver + inv[i].calls.submit = 1
              /\ inv[i].lifeCycle = "signDone" =>
                    inv[i].calls.sign = 1 /\ inv[i].calls.submit = 1
              /\ inv[i].lifeCycle \in {"start", "beforeCheckPow", "checkPowDone",
                                       "signDone"}
        /\ inv[i].op = "sendRawTx" /\ inv[i].pc = "failed" =>
              inv[i].result.kind = "error"

\* The solver failed.
C9_Witness ==
    \E i \in Inv :
        /\ Pipeline(i)
        /\ inv[i].pc = "failed"
        /\ inv[i].calls.solver = 1
        /\ inv[i].calls.submit = 0

\* C10, as claimed. Block attached to failure: every error of a send carries
\* the block.
C10_BlockAttached ==
    \A i \in Inv : inv[i].pc = "failed" /\ inv[i].calls.tip + inv[i].calls.submit > 0
                       => inv[i].result.hasBlock

\* C10, amended. When the submission Client.sendRawTx issued fails, the error
\* carries the block sendRawTx signed and submitted; when the chain-tip query,
\* the oracle or the solver of sendPowTx fails, the error carries no block.
C10_BlockAttachedBySendRawTx ==
    \A i \in Inv :
        /\ inv[i].op = "sendRawTx" /\ inv[i].pc = "failed" /\ inv[i].calls.submit = 1 =>
              /\ inv[i].result.hasBlock
              /\ inv[i].result.accountBlock = inv[i].accountBlock
              /\ IsSigned(inv[i].result.accountBlock)
              /\ Submission(i) \in submitted
        /\ Pipeline(i) /\ inv[i].pc = "failed" /\ inv[i].calls.submit = 0 =>
              ~inv[i].result.hasBlock

\* A submission of Client.sendRawTx failed.
C10_Witness ==
    \E i \in Inv :
        /\ inv[i].op = "sendRawTx"
        /\ inv[i].pc = "failed"
        /\ inv[i].result.hasBlock

----------------------------------------------------------------------------
\* The properties of the account block.

\* C11. An operation whose input validation fails ends with an error and has
\* made no external call: getDifficulty on a block without previousHash does
\* not ask the oracle, getNonce on a block without difficulty or previousHash
\* does not ask the solver, and Client.sendRawTx without a block, with an
\* invalid block or without a private key neither signs nor submits.
C11_ValidationBeforeExternalCalls ==
    [][/\ GetDifficulty /\ blk.previousHash = <<>> =>
              /\ bop'.pc = "done" /\ bop'.outcome = "thrown"
              /\ bop'.calls = NoBlockCalls
       /\ GetNonce /\ (blk.difficulty \in {Undefined, Null} \/ blk.previousHash = <<>>) =>
              /\ bop'.pc = "done" /\ bop'.outcome = "thrown"
              /\ bop'.calls = NoBlockCalls
       /\ \A accountBlock \in RawTxBlocks(LatestAccountBlock), privateKey \in {Null, PrivateKey} :
              /\ SendRawTx("a", accountBlock, privateKey)
              /\ (~accountBlock.given \/ ~accountBlock.valid \/ privateKey = Null)
              => /\ inv'["a"].pc = "failed"
                 /\ inv'["a"].calls = NoCalls
                 /\ submitted' = submitted /\ chain' = chain]_vars

\* getNonce threw on a block without difficulty, and sendRawTx failed
\* without a call.
C11_Witness ==
    /\ bop.op = "getNonce" /\ bop.outcome = "thrown" /\ bop.error = "paramsMissing"
    /\ blk.previousHash # <<>> /\ blk.difficulty = Null
    /\ inv["a"].op = "sendRawTx" /\ inv["a"].pc = "failed" /\ inv["a"].calls = NoCalls

\* C12. The constructor throws exactly when checkAccountBlock reports an
\* error; when it reports none the object holds the eight request fields.
C12_EagerValidation ==
    bop.op = "constructor" =>
        /\ bop.outcome = "thrown" <=> checkAccountBlock(bop.request) # Null
        /\ bop.outcome = "returned" <=> checkAccountBlock(bop.request) = Null
        /\ bop.outcome = "returned" => blk = constructor(bop.request)

\* C13. sign with a well-formed private key of another address throws
\* 'PrivateKey is wrong.' and leaves publicKey and signature as they were;
\* with the key of the block's address it returns, and the block holds the
\* derived public key and the signature of its hash.
C13_SignOutcome ==
    [][\A arg \in PrivateKeyArgs :
          SignBlock(arg) /\ arg.form \in KeyForms =>
              IF createAddressByPrivateKey(arg.key).address # blk.address
              THEN /\ bop'.outcome = "thrown" /\ bop'.error = "PrivateKey is wrong."
                   /\ blk'.publicKey = blk.publicKey
                   /\ blk'.signature = blk.signature
              ELSE /\ bop'.outcome = "returned"
                   /\ blk'.publicKey = Base64(createAddressByPrivateKey(arg.key).publicKey)
                   /\ blk'.signature = Sign(hashOfFields(blk'), arg.key)]_vars

\* C14. setPublicKey with a well-formed key whose address is not the block's
\* throws 'PublicKey is wrong.' and leaves publicKey as it was; with a key of
\* the block's address it returns and publicKey is the key in base64.
C14_SetPublicKey ==
    [][\A arg \in PublicKeyArgs :
          SetPublicKey(arg) /\ arg.form \in KeyForms =>
              IF getAddressFromPublicKey(arg.key) # blk.address
              THEN /\ bop'.outcome = "thrown" /\ bop'.error = "PublicKey is wrong."
                   /\ blk'.publicKey = blk.publicKey
              ELSE /\ bop'.outcome = "returned"
                   /\ blk'.publicKey = Base64(arg.key)]_vars

\* A block that holds its public key refused the key of another address.
C14_Witness ==
    /\ bop.op = "setPublicKey" /\ bop.error = "PublicKey is wrong."
    /\ bop.key.key = OtherPublicKey
    /\ blk.address = Address /\ blk.publicKey = Base64(PublicKey)

\* C15. After sign with the private key of the block's address, the
\* signature is the signature of the block's hash under that key and the
\* address of the stored public key is the block's address.
C15_SignatureRoundTrip ==
    bop.op = "sign" /\ bop.key.form \in KeyForms
    /\ createAddressByPrivateKey(bop.key.key).address = blk.address =>
        /\ bop.outcome = "returned"
        /\ blk.signature = Sign(hashOfFields(blk), bop.key.key)
        /\ blk.publicKey # <<>>
        /\ getAddressFromPublicKey(FromBase64(blk.publicKey)) = blk.address

\* C16. Reading the hash of a block gives the digest of its current fields.
C16_HashOfCurrentFields ==
    bop.op = "hash" =>
        /\ bop.outcome = "returned"
        /\ bop.hash = hashOfFields(blk)

\* C17. getHeight returns height 1 with the sentinel when the tip is null or
\* has no height, else the height after the tip's with the tip's hash; and
\* it leaves the block as it was.
C17_ChainPosition ==
    bop.op = "getHeight" /\ bop.outcome = "returned" =>
        bop.position =
            IF ~bop.latest.present \/ bop.latest.height = 0
            THEN [height |-> 1, previousHash |-> Default_Hash]
            ELSE [height |-> bop.latest.height + 1, previousHash |-> bop.latest.hash]

----------------------------------------------------------------------------
\* The properties of the loops.

\* C18. With K inbound blocks waiting and none arriving, every response
\* block the node takes removes exactly one waiting block, the oldest, so K
\* accepted submissions empty the queue; a receive loop that stays on and
\* whose calls do not fail for ever empties it; and a tick that finds the
\* queue empty submits nothing.
C18_AutoReceiveConvergence ==
    /\ [](received \o onroad \in OnroadQueues)
    /\ [][onroad' # onroad =>
              /\ onroad # <<>>
              /\ onroad' = Tail(onroad)
              /\ received' = Append(received, Head(onroad))]_vars
    /\ [][\A lp \in ChainStates :
              OnroadFetched(lp) /\ onroad = <<>> =>
                  /\ Live("receive")' \subseteq Live("receive") \cup {Chain("receive", "timer")}
                  /\ UNCHANGED <<onroad, received>>]_vars
    /\ (<>[]_autoReceive => <>(onroad = <<>>))

\* The loop received every block that waited, and is still on.
C18_Witness ==
    /\ Len(received) = MaxPending
    /\ onroad = <<>>
    /\ _autoReceive
    /\ BagIn(Chain("receive", "timer"), loops)

C20_ReceiveTick ==
    [][\A lp \in ChainStates :
          /\ OnroadFetched(lp) =>
                /\ UNCHANGED <<onroad, received>>
                /\ loops' = (loops (-) One(lp)) (+) One(
                       IF onroad = <<>> THEN Chain("receive", "timer")
                       ELSE [kind |-> "receive", pc |-> "getBlock.receiveTx",
                             from |-> Head(onroad)])
          /\ ReceiveBuilt(lp) =>
                loops' = (loops (-) One(lp)) (+) One(
                       [kind |-> "receive", pc |-> "sendRawTx", from |-> lp.from])
          /\ ReceiveSent(lp) =>
                /\ received' = Append(received, lp.from)
                /\ loops' = (loops (-) One(lp)) (+) One(Chain("receive", "timer"))]_vars

\* A tick submitted the response block of the oldest of two waiting blocks.
C20_Witness ==
    /\ Len(onroad) = 2
    /\ BagIn([kind |-> "receive", pc |-> "sendRawTx", from |-> Head(onroad)], loops)

\* C21. While a loop stays stopped none of its chains issues a new fetch; a
\* tick in flight at the stop is not dropped but goes on to its timer; and
\* a loop that stays stopped ends up with no tick in flight and no timer.
C21_StopSemantics ==
    /\ [][_lock /\ _lock' =>
              CopiesIn(balanceLoop, loops') <= CopiesIn(balanceLoop, loops)]_vars
    /\ [][~_autoReceive /\ ~_autoReceive' =>
              CopiesIn(receiveLoop, loops') <= CopiesIn(receiveLoop, loops)]_vars
    /\ [][\A lp \in ChainStates :
              lp.pc # "timer" /\ CopiesIn(lp, loops') < CopiesIn(lp, loops) =>
                  Count(lp.kind)' >= Count(lp.kind)]_vars
    /\ (<>[]_lock => <>[](Live("balance") = {}))
    /\ (<>[](~_autoReceive) => <>[](Live("receive") = {}))

\* Both loops ran, were stopped, and their chains have ended.
C21_Witness ==
    /\ _lock /\ ~_autoReceive
    /\ loops = EmptyBag
    /\ balance = "entries"
    /\ received # <<>>

\* C22. A chain of a loop ends only when its loop was stopped; a call that
\* rejects leaves the chain with its timer set; and a loop that stays on
\* starts a tick again and again, whether its calls resolve or reject.
C22_UnconditionalRescheduling ==
    /\ [][Count("balance")' < Count("balance") => _lock]_vars
    /\ [][Count("receive")' < Count("receive") => ~_autoReceive]_vars
    /\ [][\A lp \in ChainStates :
              LoopCallFails(lp) => /\ BagIn(Chain(lp.kind, "timer"), loops')
                                   /\ BagCardinality(loops') = BagCardinality(loops)]_vars
    /\ (<>[](~_lock) => []<>BagIn(balanceLoop, loops))
    /\ (<>[]_autoReceive => []<>BagIn(receiveLoop, loops))

\* getBalance of a running balance loop rejected (blocks wait, yet no
\* balance was ever stored), and the timer of the next tick is set.
C22_Witness ==
    /\ ~_lock
    /\ onroad # <<>> /\ balance = "null"
    /\ BagIn(Chain("balance", "timer"), loops)

\* C29. freeze sets _lock and leaves _autoReceive and the chains alone;
\* stopAutoReceiveTx clears _autoReceive and leaves _lock and the chains
\* alone; a receive loop that is on goes on ticking while the balance loop
\* is frozen.
C29_IndependentFlags ==
    /\ [][Freeze => _lock' /\ UNCHANGED <<_autoReceive, loops>>]_vars
    /\ [][StopAutoReceiveTx => ~_autoReceive' /\ UNCHANGED <<_lock, loops>>]_vars
    /\ (<>[](_lock /\ _autoReceive) => []<>BagIn(receiveLoop, loops))

\* The balance loop ran and is frozen, its chain has ended, and the receive
\* loop is in a tick.
C29_Witness ==
    /\ _lock /\ _autoReceive
    /\ balance # "null"
    /\ Live("balance") = {}
    /\ BagIn(receiveLoop, loops)

\* C30. At most one chain of the receive loop is alive: one timer or one
\* tick in flight.
C30_SingleReceiveLoop == Count("receive") <= 1

\* The markers of the pipeline in the order the code sets them.
LifeCycles == <<"start", "beforeCheckPow", "checkPowDone", "powDone", "signDone">>

Rank(l) == CHOOSE k \in 1..Len(LifeCycles) : LifeCycles[k] = l

\* C24. With hooks that call their continuation at most once, the stages of
\* one invocation run in the fixed order: the marker never goes back, the
\* difficulty is asked for after the block alone, the solver runs after the
\* difficulty check and before any signing, the block is signed after the
\* solver and before any submission, the submission is the last call, and
\* 'finish' is reported only by a submission that was answered.
C24_StageOrdering ==
    [][\A i \in Inv :
          Pipeline(i) /\ inv[i].pc \notin {"idle", "returned", "failed"} =>
              LET s == inv[i]
                  t == inv'[i]
              IN  /\ Rank(t.lifeCycle) >= Rank(s.lifeCycle)
                  /\ t.calls.oracle > s.calls.oracle =>
                        /\ s.calls = [NoCalls EXCEPT !.tip = 1]
                        /\ t.lifeCycle = "beforeCheckPow"
                  /\ t.calls.solver > s.calls.solver =>
                        /\ s.calls = [NoCalls EXCEPT !.tip = 1, !.oracle = 1]
                        /\ t.lifeCycle = "checkPowDone"
                        /\ t.checkPowResult.difficulty # Null
                  /\ t.calls.sign > s.calls.sign =>
                        /\ s.calls = [NoCalls EXCEPT !.tip = 1, !.oracle = 1,
                                                     !.solver = 1]
                        /\ s.accountBlock.nonce \in Nonces \/ s.pc = "pow"
                        /\ t.accountBlock.nonce \in Nonces
                        /\ t.lifeCycle = "signDone"
                  /\ t.calls.submit > s.calls.submit =>
                        /\ s.calls.submit = 0
                        /\ IF t.checkPowResult.difficulty = Null
                           THEN /\ t.calls = [NoCalls EXCEPT !.tip = 1, !.oracle = 1,
                                                             !.submit = 1]
                                /\ t.lifeCycle = "checkPowDone"
                           ELSE /\ t.calls = [tip |-> 1, oracle |-> 1, solver |-> 1,
                                              sign |-> 1, submit |-> 1]
                                /\ t.lifeCycle = "signDone"
                                /\ IsSigned(t.accountBlock)
                  /\ t.result.kind = "result" /\ t.result.lifeCycle = "finish" =>
                        /\ s.pc = "sendAccountBlock"
                        /\ s.calls.submit = 1
                        /\ t.calls = s.calls]_vars

\* An invocation with all four hooks went through every stage.
C24_Witness ==
    \E i \in Inv :
        /\ inv[i].hooks = HookNames
        /\ \A h \in HookNames : inv[i].hookDid[h] = "proceed"
        /\ inv[i].result.kind = "result"
        /\ inv[i].result.lifeCycle = "finish"
        /\ inv[i].calls.solver = 1

\* C26. An invocation a hook rejected returns the marker of the stage last
\* completed, with the block and the difficulty result as they were then:
\* 'checkPowDone' and a block without nonce from beforePow, 'powDone' and an
\* unsigned block with a nonce from beforeSignTx, 'signDone' and the signed
\* block from beforeSendTx after proof-of-work, 'checkPowDone' from
\* beforeSendTx when no proof-of-work was needed.
C26_AbortMarker ==
    \A i \in Inv :
        LET s == inv[i]
            r == inv[i].result
        IN  /\ (\E h \in HookNames \ {"beforeCheckPow"} : s.hookDid[h] = "reject") =>
                  /\ s.pc = "returned"
                  /\ r.kind = "result"
                  /\ r.accountBlock = s.accountBlock
                  /\ r.checkPowResult = s.checkPowResult
                  /\ r.checkPowResult.difficulty \in Difficulties
            /\ s.hookDid["beforePow"] = "reject" =>
                  /\ r.lifeCycle = "checkPowDone"
                  /\ r.checkPowResult.difficulty \in Difficulties \ {Null}
                  /\ r.accountBlock.nonce = Null
                  /\ ~IsSigned(r.accountBlock)
            /\ s.hookDid["beforeSignTx"] = "reject" =>
                  /\ r.lifeCycle = "powDone"
                  /\ r.accountBlock.nonce \in Nonces
                  /\ ~IsSigned(r.accountBlock)
            /\ s.hookDid["beforeSendTx"] = "reject" =>
                  IF r.checkPowResult.difficulty = Null
                  THEN /\ r.lifeCycle = "checkPowDone"
                       /\ r.accountBlock.nonce = Null
                       /\ ~IsSigned(r.accountBlock)
                  ELSE /\ r.lifeCycle = "signDone"
                       /\ r.accountBlock.nonce \in Nonces
                       /\ IsSigned(r.accountBlock)

\* beforeSendTx rejected a block that needed no proof-of-work.
C26_Witness ==
    \E i \in Inv :
        /\ inv[i].hookDid["beforeSendTx"] = "reject"
        /\ inv[i].checkPowResult.difficulty = Null
        /\ inv[i].result.kind = "result"
        /\ inv[i].result.lifeCycle = "checkPowDone"

\* The external calls of the stages an invocation has not reached when the
\* hook h runs.
NotReached(i, h) ==
    /\ inv[i].calls.submit = 0
    /\ h = "beforeCheckPow" => inv[i].calls.oracle = 0
    /\ h \in {"beforeCheckPow", "beforePow"} => inv[i].calls.solver = 0
    /\ h \in {"beforeCheckPow", "beforePow", "beforeSignTx"} => inv[i].calls.sign = 0

InFlight(i) ==
    inv[i].pc \in {"getBlock", "calcPoWDifficulty", "pow", "sendAccountBlock"}

\* C27. An invocation whose hook never calls its continuation stays where it
\* is for ever: it has no result, makes no call of a later stage and never
\* changes again, while an invocation of another caller still comes to its
\* end.
C27_StalledHook ==
    /\ [](\A i \in Inv : \A h \in HookNames :
            inv[i].hookDid[h] = "stall" =>
                /\ inv[i].pc = "stalled"
                /\ inv[i].result = NoResult
                /\ NotReached(i, h))
    /\ [][\A i \in Inv : inv[i].pc = "stalled" => inv'[i] = inv[i]]_vars
    /\ [](inv["a"].pc = "stalled" => [](inv["a"].pc = "stalled"))
    /\ (inv["a"].pc = "stalled" /\ InFlight("b")) ~> ~InFlight("b")

\* Caller b finished an invocation while caller a is stalled.
C27_Witness ==
    /\ inv["a"].pc = "stalled"
    /\ inv["b"].pc = "returned"
    /\ inv["b"].result.kind = "result"
    /\ inv["b"].result.lifeCycle = "finish"
    /\ inv["b"].calls.submit = 1

\* C25. In every invocation, whatever the hooks do with their
\* continuations, the block is signed only once a nonce is attached to it
\* (when proof-of-work is required), and once the block has been signed its
\* nonce does not change any more.
C25_SignAfterNonce ==
    [][\A i \in Inv :
          Pipeline(i) /\ runs' = runs =>
              LET s == inv[i]
                  t == inv'[i]
              IN  /\ t.calls.sign > s.calls.sign /\ t.checkPowResult.difficulty # Null =>
                        t.accountBlock.nonce \in SolverNonces
                  /\ s.calls.sign > 0 => t.accountBlock.nonce = s.accountBlock.nonce]_vars

\* C28. autoSetNonce on a block with a previousHash first asks for the
\* difficulty and stores the answer on the block; with a falsy difficulty
\* the solver is not called and the nonce is set to null, with a truthy one
\* the solver is called once and its answer is stored as the nonce; the
\* pair it returns is the difficulty and the nonce stored on the block.
C28_AutoSetNonce ==
    /\ [][AutoSetNonce /\ blk.previousHash # <<>> =>
              /\ bop'.pc = "ledger_getPoWDifficulty"
              /\ bop'.calls = [NoBlockCalls EXCEPT !.oracle = 1]]_vars
    /\ [][\A latest \in TipResponses, answer \in Difficulties \cup Nonces :
              BlockResponse(latest, answer) /\ bop.op = "autoSetNonce" =>
                  IF bop.pc = "ledger_getPoWDifficulty"
                  THEN /\ blk'.difficulty = answer
                       /\ IF answer = Null
                          THEN /\ blk'.nonce = Null
                               /\ bop'.calls.solver = 0
                               /\ bop'.outcome = "returned"
                               /\ bop'.pair = [difficulty |-> Null, nonce |-> Null]
                          ELSE /\ bop'.pc = "util_getPoWNonce"
                               /\ bop'.calls.solver = 1
                  ELSE /\ blk'.nonce = answer
                       /\ bop'.calls.solver = 1
                       /\ bop'.outcome = "returned"
                       /\ bop'.pair = [difficulty |-> blk.difficulty,
                                       nonce |-> answer]]_vars

\* What a client exposes of a namespace: an object with one function for
\* every method of the namespace, calling the method's RPC name.
Exposes(c, namespace) ==
    /\ c.fields[FieldOf(namespace)].is = "object"
    /\ DOMAIN c.fields[FieldOf(namespace)].members = DOMAIN methods[namespace]
    /\ \A methodName \in DOMAIN methods[namespace] :
          c.fields[FieldOf(namespace)].members[methodName] = <<namespace, methodName>>

\* C23. A client constructed with an ipc provider exposes every namespace,
\* wallet included; a client constructed with any other provider (http, ws,
\* or one without a type) exposes every namespace but wallet, whose field is
\* null; every method of an exposed namespace is a function, and the
\* subscribe namespace is exposed as subscribeFunc.
C23_NamespaceWiring ==
    [][\A provider \in ProviderTypes :
          NewClient(provider) =>
              /\ \A namespace \in Namespaces \ {"wallet"} : Exposes(client', namespace)
              /\ client'.fields["subscribeFunc"].is = "object"
              /\ "subscribe" \notin DOMAIN client'.fields
              /\ IF provider \in {"ipc", "IPC"}
                 THEN Exposes(client', "wallet")
                 ELSE client'.fields["wallet"] = NullField]_vars

\* A method of the wallet namespace of a client constructed over ipc was
\* called.
C23_Witness ==
    /\ client.type = "ipc"
    /\ client.fields["wallet"].is = "object"
    /\ client.requested = <<"wallet", "unlock">>

\* C31. At most one chain of the balance loop is alive, a pending timer or
\* a balance fetch in flight, whatever activate and freeze calls were made;
\* activate on an account that is not frozen starts no chain.
C31_SingleBalanceLoop ==
    /\ [](Count("balance") <= 1)
    /\ [][Activate /\ ~_lock => UNCHANGED <<_lock, loops>>]_vars

C33_ForeignBlockRejected ==
    [][\A i \in Inv, a \in {Undefined, Address, OtherAddress}, t \in BlockTypes :
          SignAccountBlock(i, a, t) =>
              IF a = OtherAddress
              THEN /\ inv'[i].pc = "failed"
                   /\ inv'[i].accountAddress = OtherAddress
                   /\ inv'[i].accountBlock = getBlock(t, LatestAccountBlock)
                   /\ ~IsSigned(inv'[i].accountBlock)
                   /\ inv'[i].calls.sign = 0
              ELSE /\ inv'[i].pc = "returned"
                   /\ inv'[i].accountAddress = Address
                   /\ IsSigned(inv'[i].accountBlock)]_vars

====
